---------------------------- MODULE Spec2Model ----------------------------
(***************************************************************************)
(* A model of src/dataloader.py: the LSUN data loader.                     *)
(*                                                                         *)
(*   LSUNClass             one lmdb store opened read-only, its key list   *)
(*                         taken from a pickled cache file or from a       *)
(*                         cursor scan that then writes the cache file     *)
(*   LSUNCustomDataLoader  the concatenation of one LSUNClass per class,   *)
(*                         with the cumulative table `indices`             *)
(*                                                                         *)
(* Strings are sequences of one-character strings, so that str.split,      *)
(* str.join and the letters-only filter of the cache path are computed     *)
(* character by character, as the code computes them.                      *)
(*                                                                         *)
(* Four specifications share the variables:                                *)
(*   SpecVerify  _verify_classes applied to a bounded set of arguments     *)
(*   SpecSeq     one process constructing LSUNClass objects in sequence    *)
(*   SpecRace    two processes constructing LSUNClass objects concurrently *)
(*   SpecData    one LSUNCustomDataLoader: construction, len(), fetches    *)
(***************************************************************************)
EXTENDS Integers, Sequences, FiniteSets, TLC

VARIABLES
    vArg,             \* the `classes` argument of _verify_classes / __init__
    vRes,             \* what _verify_classes returned or raised
    vpc,              \* "call" | "done"
    store,            \* root -> number of entries of the lmdb store there
    files,            \* cache path -> [exists, data] (the file system)
    proc,             \* process -> the LSUNClass.__init__ call it is in
    opens,            \* process -> the outcomes of its finished constructions
    active,           \* the processes that run
    mutations,        \* how many times external writers changed a store
    dpc,              \* LSUNCustomDataLoader: where its construction stands
    classes,          \* self.classes
    dbs,              \* self.dbs
    indices,          \* self.indices
    length,           \* self.length
    transform,        \* self.transform is not None
    target_transform, \* self.target_transform is not None
    fetch,            \* the __getitem__ call in progress
    lenRet            \* what the last __len__ call returned; -1 before any

vars == << vArg, vRes, vpc, store, files, proc, opens, active, mutations, dpc, classes,
           dbs, indices, length, transform, target_transform, fetch, lenRet >>

verifyVars == << vArg, vRes, vpc >>
cacheVars == << store, files, proc, opens, active, mutations >>
nonCacheVars == << verifyVars, dpc, classes, dbs, indices, length, transform,
                   target_transform, fetch, lenRet >>
dataVars == << dpc, classes, dbs, indices, length, transform,
               target_transform, fetch, lenRet >>

----------------------------------------------------------------------------
(* Bounds of the model.                                                    *)

\* the longest explicit list handed to _verify_classes
MaxClasses == 2
\* the most entries a store of the cache specifications holds
MaxEntries == 2
\* the most LSUNClass constructions one process performs
MaxOpens == 2
\* the most changes external writers make to the stores
MaxMutations == 1
\* the most classes of a data loader
MaxStores == 2
\* the most entries a store of the data loader reports
MaxStoreLen == 5

----------------------------------------------------------------------------
(* Strings.                                                                *)

RECURSIVE SplitRec(_, _, _)
SplitRec(rest, cur, acc) ==
    IF rest = << >> THEN Append(acc, cur)
    ELSE IF Head(rest) = "_"
         THEN SplitRec(Tail(rest), << >>, Append(acc, cur))
         ELSE SplitRec(Tail(rest), Append(cur, Head(rest)), acc)

\* str.split("_"): the segments between underscores, empty ones included
Split(s) == SplitRec(s, << >>, << >>)

RECURSIVE Join(_)
\* "_".join(parts)
Join(parts) ==
    IF parts = << >> THEN << >>
    ELSE IF Len(parts) = 1 THEN parts[1]
         ELSE parts[1] \o << "_" >> \o Join(Tail(parts))

InSeq(x, seq) == \E i \in 1..Len(seq) : seq[i] = x

\* string.ascii_letters, as far as the model's paths use characters
ascii_letters ==
    { "a", "b", "c", "d", "e", "f", "g", "h", "i", "j", "k", "l", "m",
      "n", "o", "p", "q", "r", "s", "t", "u", "v", "w", "x", "y", "z",
      "A", "B", "C", "D", "E", "F", "G", "H", "I", "J", "K", "L", "M",
      "N", "O", "P", "Q", "R", "S", "T", "U", "V", "W", "X", "Y", "Z" }

----------------------------------------------------------------------------
(* _verify_classes.                                                        *)

categories ==
    << <<"s", "h", "e", "e", "p">>,
       <<"b", "e", "d", "r", "o", "o", "m">>,
       <<"b", "r", "i", "d", "g", "e">>,
       <<"c", "h", "u", "r", "c", "h", "_", "o", "u", "t", "d", "o", "o", "r">>,
       <<"c", "l", "a", "s", "s", "r", "o", "o", "m">>,
       <<"c", "o", "n", "f", "e", "r", "e", "n", "c", "e", "_", "r", "o", "o", "m">>,
       <<"d", "i", "n", "i", "n", "g", "_", "r", "o", "o", "m">>,
       <<"k", "i", "t", "c", "h", "e", "n">>,
       <<"l", "i", "v", "i", "n", "g", "_", "r", "o", "o", "m">>,
       <<"r", "e", "s", "t", "a", "u", "r", "a", "n", "t">>,
       <<"t", "o", "w", "e", "r">> >>

dset_opts == << <<"t", "r", "a", "i", "n">>, <<"v", "a", "l">>, <<"t", "e", "s", "t">> >>

\* a Python value of the argument: a str (isStr, its characters in s) or not
StrVal(s) == [isStr |-> TRUE, s |-> s]
NonStr == [isStr |-> FALSE, s |-> << >>]

\* the argument `classes`: a str, a list, or a value that is not Iterable
StrArg(s) == [kind |-> "str", s |-> s, items |-> << >>]
ListArg(items) == [kind |-> "list", s |-> << >>, items |-> items]
OtherArg == [kind |-> "other", s |-> << >>, items |-> << >>]

Returned(cs) == [ok |-> TRUE, classes |-> cs, what |-> "", named |-> << >>]
\* ValueError; `what` is the kind of value the message names, `named` the value
Raised(what, named) ==
    [ok |-> FALSE, classes |-> << >>, what |-> what, named |-> named]

\* a mutant of CategoryOf: only the first segment is taken as the category
CategoryOfFirst(c_short) == c_short[1]

\* "_".join(c_short[:-1])
CategoryOf(c_short) == Join(SubSeq(c_short, 1, Len(c_short) - 1))

\* c_short[-1]
DsetOptOf(c_short) == c_short[Len(c_short)]

\* the body of `for c in classes`, for one element: the error it raises, if any
CheckElement(c) ==
    IF ~c.isStr THEN Raised("type", << >>)
    ELSE LET c_short == Split(c.s)
             category == CategoryOf(c_short)
             dset_opt == DsetOptOf(c_short)
         IN  IF ~InSeq(category, categories) THEN Raised("LSUN class", category)
             ELSE IF ~InSeq(dset_opt, dset_opts) THEN Raised("postfix", dset_opt)
             ELSE Returned(<< >>)

RECURSIVE CheckElements(_, _)
\* the loop over the list: the first element that raises ends it
CheckElements(lst, i) ==
    IF i > Len(lst) THEN Returned(lst)
    ELSE IF ~CheckElement(lst[i]).ok THEN CheckElement(lst[i])
         ELSE CheckElements(lst, i + 1)

VerifyClasses(arg) ==
    IF arg.kind = "str" /\ InSeq(arg.s, dset_opts)
    THEN IF arg.s = <<"t", "e", "s", "t">>
         THEN Returned(<< StrVal(arg.s) >>)
         ELSE Returned([i \in 1..Len(categories) |->
                           StrVal(categories[i] \o << "_" >> \o arg.s)])
    ELSE IF arg.kind = "other" THEN Raised("iterable", << >>)
    ELSE CheckElements(
             IF arg.kind = "str"
             THEN [i \in 1..Len(arg.s) |-> StrVal(<< arg.s[i] >>)]
             ELSE arg.items,
             1)

----------------------------------------------------------------------------
(* The stores, the cache files and pickle.                                 *)

RootA == << "d", "/", "1" >>
RootB == << "d", "/", "2" >>
RootC == << "e" >>
Roots == { RootA, RootB, RootC }

Procs == { 1, 2 }

\* a mutant of cache_file: the digits of the root are kept as well
CachePathKeepingDigits(root) ==
    << "_", "c", "a", "c", "h", "e", "_" >>
        \o SelectSeq(root, LAMBDA c : c \in ascii_letters \cup { "1", "2" })

\* cache_file = "_cache_" + "".join(c for c in root if c in string.ascii_letters)
CachePath(root) ==
    << "_", "c", "a", "c", "h", "e", "_" >>
        \o SelectSeq(root, LAMBDA c : c \in ascii_letters)

Paths == { CachePath(r) : r \in Roots }

\* the key of entry i of the store at `root`; keys of different stores differ
KeyOf(root, i) == [s |-> root, k |-> i]
NoKey == [s |-> << >>, k |-> 0]

\* [key for key in txn.cursor().iternext(keys=True, values=False)],
\* for a store of n entries
ScanKeys(root, n) == [i \in 1..n |-> KeyOf(root, i)]

\* one unit of a pickle stream: an opcode, or a key pushed on the stack
Op(name) == [op |-> name, key |-> NoKey]
KeyTok(key) == [op |-> "KEY", key |-> key]
\* a hole of a file: what a write past its end leaves before the written part
Nul == Op("NUL")

\* pickle.dump(keys, f): the stream written for a list of keys
Dump(keys) ==
    IF keys = << >>
    THEN << Op("PROTO"), Op("EMPTY_LIST"), Op("STOP") >>
    ELSE << Op("PROTO"), Op("EMPTY_LIST"), Op("MARK") >>
             \o [i \in 1..Len(keys) |-> KeyTok(keys[i])]
             \o << Op("APPENDS"), Op("STOP") >>

RECURSIVE KeyRunEnd(_, _)
\* the index after the run of KEY units of `data` that starts at index i
KeyRunEnd(data, i) ==
    IF i <= Len(data) /\ data[i].op = "KEY" THEN KeyRunEnd(data, i + 1) ELSE i

Loaded(keys) == [ok |-> TRUE, keys |-> keys]
\* EOFError / UnpicklingError
LoadError == [ok |-> FALSE, keys |-> << >>]

\* a mutant of Load: the stream's end is accepted in place of APPENDS and STOP
LoadLenient(data) ==
    IF Len(data) < 2 \/ data[1].op # "PROTO" \/ data[2].op # "EMPTY_LIST"
    THEN Loaded(<< >>)
    ELSE IF Len(data) = 2 \/ data[3].op # "MARK" THEN Loaded(<< >>)
    ELSE LET e == KeyRunEnd(data, 4)
         IN  Loaded([i \in 1..(e - 4) |-> data[i + 3].key])

\* pickle.load(f): the units are read in order up to STOP; whatever follows
\* STOP is not read, and a stream that ends or goes wrong before STOP raises
Load(data) ==
    IF Len(data) < 3 \/ data[1].op # "PROTO" \/ data[2].op # "EMPTY_LIST"
    THEN LoadError
    ELSE IF data[3].op = "STOP" THEN Loaded(<< >>)
    ELSE IF data[3].op # "MARK" THEN LoadError
    ELSE LET e == KeyRunEnd(data, 4)
         IN  IF e + 1 <= Len(data) /\ data[e].op = "APPENDS"
                  /\ data[e + 1].op = "STOP"
             THEN Loaded([i \in 1..(e - 4) |-> data[i + 3].key])
             ELSE LoadError

\* a write of `chunk` at offset `off` of a file holding `data`
WriteAt(data, off, chunk) ==
    LET n == IF Len(data) > off + Len(chunk) THEN Len(data) ELSE off + Len(chunk)
    IN  [i \in 1..n |->
            IF i > off /\ i <= off + Len(chunk) THEN chunk[i - off]
            ELSE IF i <= Len(data) THEN data[i] ELSE Nul]

IsPrefix(a, b) == Len(a) <= Len(b) /\ SubSeq(b, 1, Len(a)) = a

NoFile == [exists |-> FALSE, data |-> << >>]
FileOf(data) == [exists |-> TRUE, data |-> data]

\* a mutant of CacheExists: the test looks for a file that never exists
CacheNeverExists(fs, path) == FALSE

\* os.path.isfile(cache_file)
CacheExists(fs, path) == fs[path].exists

\* whether process p of the model may start another construction: a process
\* running alone performs up to MaxOpens of them, each of several concurrent
\* processes performs one
MayOpen(p) ==
    IF Cardinality(active) > 1 THEN opens[p] = << >>
    ELSE Len(opens[p]) < MaxOpens

IdleProc ==
    [pc |-> "idle", root |-> << >>, length |-> 0, keys |-> << >>,
     buf |-> << >>, off |-> 0]

\* the record of a finished construction: a handle (status "ok") or the
\* exception pickle.load raised; scanned: the cursor enumerated the keys;
\* torn: the file it loaded was then a proper prefix of what a process that
\* was still writing it had to write
Outcome(root, status, len, keys, scanned, torn) ==
    [root |-> root, status |-> status, length |-> len, keys |-> keys,
     scanned |-> scanned, torn |-> torn]

----------------------------------------------------------------------------
(* LSUNClass.__init__, statement by statement, by process p.               *)

\* lines 27-29: lmdb.open and txn.stat()["entries"]
Open(p, r) ==
    /\ proc[p].pc = "idle"
    /\ MayOpen(p)
    /\ proc' = [proc EXCEPT ![p] =
                   [IdleProc EXCEPT !.pc = "check", !.root = r,
                                    !.length = store[r]]]
    /\ UNCHANGED << store, files, opens, active, mutations >>
    /\ UNCHANGED nonCacheVars

\* line 31: the test of the cache file
CheckCache(p) ==
    /\ proc[p].pc = "check"
    /\ proc' = [proc EXCEPT ![p].pc =
                   IF CacheExists(files, CachePath(proc[p].root))
                   THEN "load" ELSE "scan"]
    /\ UNCHANGED << store, files, opens, active, mutations >>
    /\ UNCHANGED nonCacheVars

\* line 32: pickle.load of the cache file as it is now
LoadCache(p) ==
    /\ proc[p].pc = "load"
    /\ LET path == CachePath(proc[p].root)
           data == files[path].data
           got == Load(data)
           torn == \E q \in active \ {p} :
                       /\ proc[q].pc = "write"
                       /\ CachePath(proc[q].root) = path
                       /\ IsPrefix(data, proc[q].buf)
                       /\ data # proc[q].buf
       IN  /\ opens' = [opens EXCEPT ![p] = Append(@,
                           Outcome(proc[p].root,
                                   IF got.ok THEN "ok" ELSE "load_error",
                                   proc[p].length, got.keys, FALSE, torn))]
           /\ proc' = [proc EXCEPT ![p] = IdleProc]
    /\ UNCHANGED << store, files, active, mutations >>
    /\ UNCHANGED nonCacheVars

\* lines 34-35: the cursor scan
Scan(p) ==
    /\ proc[p].pc = "scan"
    /\ proc' = [proc EXCEPT ![p].pc = "create",
                            ![p].keys = ScanKeys(proc[p].root, store[proc[p].root])]
    /\ UNCHANGED << store, files, opens, active, mutations >>
    /\ UNCHANGED nonCacheVars

\* line 36, open(cache_file, "wb"): the file is created, or cut to length 0
Create(p) ==
    /\ proc[p].pc = "create"
    /\ files' = [files EXCEPT ![CachePath(proc[p].root)] = FileOf(<< >>)]
    /\ proc' = [proc EXCEPT ![p].pc = "write", ![p].buf = Dump(proc[p].keys),
                            ![p].off = 0]
    /\ UNCHANGED << store, opens, active, mutations >>
    /\ UNCHANGED nonCacheVars

\* line 36, pickle.dump: the buffered writer hands the stream to the file in
\* one or more pieces, each at the writer's own offset; the last piece is
\* written when the file object is closed, which ends the constructor
Write(p) ==
    /\ proc[p].pc = "write"
    /\ \E n \in 1..(Len(proc[p].buf) - proc[p].off) :
          LET path == CachePath(proc[p].root)
              chunk == SubSeq(proc[p].buf, proc[p].off + 1, proc[p].off + n)
              last == proc[p].off + n = Len(proc[p].buf)
          IN  /\ files' = [files EXCEPT ![path] =
                              FileOf(WriteAt(files[path].data, proc[p].off, chunk))]
              /\ IF last
                 THEN /\ opens' = [opens EXCEPT ![p] = Append(@,
                                      Outcome(proc[p].root, "ok", proc[p].length,
                                              proc[p].keys, TRUE, FALSE))]
                      /\ proc' = [proc EXCEPT ![p] = IdleProc]
                 ELSE /\ proc' = [proc EXCEPT ![p].off = @ + n]
                      /\ UNCHANGED opens
    /\ UNCHANGED << store, active, mutations >>
    /\ UNCHANGED nonCacheVars

\* an external writer adds an entry to the store at r
StorePut(r) ==
    /\ mutations < MaxMutations
    /\ store[r] < MaxEntries
    /\ store' = [store EXCEPT ![r] = @ + 1]
    /\ mutations' = mutations + 1
    /\ UNCHANGED << files, proc, opens, active >>
    /\ UNCHANGED nonCacheVars

\* an external writer deletes the last entry of the store at r
StoreDelete(r) ==
    /\ mutations < MaxMutations
    /\ store[r] > 0
    /\ store' = [store EXCEPT ![r] = @ - 1]
    /\ mutations' = mutations + 1
    /\ UNCHANGED << files, proc, opens, active >>
    /\ UNCHANGED nonCacheVars

NextCache ==
    \/ \E p \in active, r \in Roots : Open(p, r)
    \/ \E p \in active : CheckCache(p)
    \/ \E p \in active : LoadCache(p)
    \/ \E p \in active : Scan(p)
    \/ \E p \in active : Create(p)
    \/ \E p \in active : Write(p)
    \/ \E r \in Roots : StorePut(r)
    \/ \E r \in Roots : StoreDelete(r)

----------------------------------------------------------------------------
(* LSUNCustomDataLoader.                                                   *)

\* the root directory the data loader is constructed on
DataRoot == RootA

\* class names the data loader of the model is asked for, in this order
DataClassNames ==
    << <<"b", "e", "d", "r", "o", "o", "m", "_", "t", "r", "a", "i", "n">>,
       <<"s", "h", "e", "e", "p", "_", "t", "r", "a", "i", "n">>,
       <<"t", "o", "w", "e", "r", "_", "v", "a", "l">>,
       <<"c", "h", "u", "r", "c", "h", "_", "o", "u", "t", "d", "o", "o", "r", "_", "v", "a", "l">> >>

DataClassList(k) ==
    [i \in 1..k |-> StrVal(DataClassNames[((i - 1) % Len(DataClassNames)) + 1])]

\* an LSUNClass object
Handle(root, len, keys) == [root |-> root, length |-> len, keys |-> keys]

\* line 90 as written: every class is opened on the loader's own root
ClassRoot(root, c) == root

RECURSIVE BuildIndicesPlain(_, _, _, _)
\* a mutant of BuildIndices: each entry is the store's own length
BuildIndicesPlain(hs, i, count, acc) ==
    IF i > Len(hs) THEN [indices |-> acc, count |-> count]
    ELSE BuildIndicesPlain(hs, i + 1, count + hs[i].length,
                           Append(acc, hs[i].length))

RECURSIVE BuildIndices(_, _, _, _)
\* lines 92-98: count += len(db); self.indices.append(count)
BuildIndices(hs, i, count, acc) ==
    IF i > Len(hs) THEN [indices |-> acc, count |-> count]
    ELSE BuildIndices(hs, i + 1, count + hs[i].length,
                      Append(acc, count + hs[i].length))

RECURSIVE ResolveLoop(_, _, _, _, _)
\* lines 152-158: the loop over self.indices
ResolveLoop(ind, index, pos, target, sub) ==
    IF pos > Len(ind) THEN [target |-> target, sub |-> sub]
    ELSE IF index < ind[pos] THEN [target |-> target, sub |-> sub]
         ELSE ResolveLoop(ind, index, pos + 1, target + 1, ind[pos])

RECURSIVE ResolveLoopInclusive(_, _, _, _, _)
ResolveLoopInclusive(ind, index, pos, target, sub) ==
    IF pos > Len(ind) THEN [target |-> target, sub |-> sub]
    ELSE IF index <= ind[pos] THEN [target |-> target, sub |-> sub]
         ELSE ResolveLoopInclusive(ind, index, pos + 1, target + 1, ind[pos])

\* a mutant of Resolve: the loop stops at a boundary equal to the index
ResolveInclusive(ind, index) == ResolveLoopInclusive(ind, index, 1, 0, 0)

Resolve(ind, index) == ResolveLoop(ind, index, 1, 0, 0)

\* Python's list indexing: seq[i] for -len <= i < len, IndexError otherwise
PyIndexOK(seq, i) == (0 - Len(seq)) <= i /\ i < Len(seq)
PyGet(seq, i) == IF i >= 0 THEN seq[i + 1] ELSE seq[Len(seq) + i + 1]

\* the image on its way through LSUNClass.__getitem__: the store and key it
\* was read from, whether txn.get found the key, whether Image.open decoded
\* it, and how many times self.transform was applied to it
NoImg == [store |-> << >>, key |-> NoKey, present |-> FALSE,
          decoded |-> FALSE, transformed |-> 0]
\* the target: the value, and how many times target_transform was applied
NoLabel == [val |-> 0, tt |-> 0]

\* a mutant of TransformItem: the transform is applied twice
TransformItemTwice(img) == [img EXCEPT !.transformed = @ + 2]

\* line 50: img = self.transform(img)
TransformItem(img) == [img EXCEPT !.transformed = @ + 1]

FetchIdle ==
    [pc |-> "idle", index |-> 0, target |-> 0, sub |-> 0, local |-> 0,
     label |-> NoLabel, img |-> NoImg, events |-> << >>, result |-> "none"]

\* the indexes the model fetches with: the valid ones, the two above them and
\* the two below 0
IndexRange == (0 - 2)..(length + 1)

\* line 85: self.classes = self._verify_classes(classes)
DsVerify ==
    /\ dpc = "new"
    /\ LET r == VerifyClasses(vArg)
       IN  /\ vRes' = r
           /\ classes' = r.classes
           /\ dpc' = IF r.ok THEN "opening" ELSE "failed"
    /\ UNCHANGED << vArg, vpc, dbs, indices, length, transform,
                    target_transform, fetch, lenRet >>
    /\ UNCHANGED cacheVars

\* lines 89-90, one turn of the loop: LSUNClass(root=root, transform=transform)
\* (lines 27-36 run by this one process without interruption); n is the
\* number of entries the store reports at this moment
DsOpenClass ==
    /\ dpc = "opening"
    /\ Len(dbs) < Len(classes)
    /\ \E n \in 0..MaxStoreLen :
          LET root == ClassRoot(DataRoot, classes[Len(dbs) + 1])
              path == CachePath(root)
              hit == CacheExists(files, path)
              got == Load(files[path].data)
              keys == IF hit THEN got.keys ELSE ScanKeys(root, n)
          IN  /\ store' = [store EXCEPT ![root] = n]
              /\ files' = IF hit THEN files
                          ELSE [files EXCEPT ![path] = FileOf(Dump(keys))]
              /\ IF hit /\ ~got.ok
                 THEN dpc' = "failed" /\ dbs' = dbs
                 ELSE dpc' = dpc /\ dbs' = Append(dbs, Handle(root, n, keys))
    /\ UNCHANGED << classes, indices, length, transform, target_transform,
                    fetch, lenRet, proc, opens, active, mutations >>
    /\ UNCHANGED verifyVars

\* lines 92-98
DsBuildIndices ==
    /\ dpc = "opening"
    /\ Len(dbs) = Len(classes)
    /\ LET b == BuildIndices(dbs, 1, 0, << >>)
       IN  indices' = b.indices /\ length' = b.count
    /\ dpc' = "ready"
    /\ UNCHANGED << classes, dbs, transform, target_transform, fetch, lenRet >>
    /\ UNCHANGED verifyVars
    /\ UNCHANGED cacheVars

\* lines 169-170: __len__
LenCall ==
    /\ dpc = "ready"
    /\ lenRet' = length
    /\ UNCHANGED << dpc, classes, dbs, indices, length, transform,
                    target_transform, fetch >>
    /\ UNCHANGED verifyVars
    /\ UNCHANGED cacheVars

FetchStep(f) ==
    /\ fetch' = f
    /\ UNCHANGED << dpc, classes, dbs, indices, length, transform,
                    target_transform, lenRet >>
    /\ UNCHANGED verifyVars
    /\ UNCHANGED cacheVars

\* a call of LSUNCustomDataLoader.__getitem__(index)
FetchCall ==
    /\ dpc = "ready"
    /\ fetch.pc = "idle"
    /\ \E i \in IndexRange :
          FetchStep([FetchIdle EXCEPT !.pc = "resolve", !.index = i])

\* lines 152-158
FetchResolve ==
    /\ fetch.pc = "resolve"
    /\ LET r == Resolve(indices, fetch.index)
       IN  FetchStep([fetch EXCEPT !.pc = "select", !.target = r.target,
                                   !.sub = r.sub])

\* lines 160-161: db = self.dbs[target]; index = index - sub
FetchSelect ==
    /\ fetch.pc = "select"
    /\ IF fetch.target >= Len(dbs)
       THEN FetchStep([fetch EXCEPT !.pc = "idle", !.result = "IndexError"])
       ELSE FetchStep([fetch EXCEPT !.pc = "label",
                                    !.local = fetch.index - fetch.sub])

\* lines 163-164: target = self.target_transform(target), if there is one
FetchLabel ==
    /\ fetch.pc = "label"
    /\ IF target_transform
       THEN FetchStep([fetch EXCEPT
                          !.pc = "read",
                          !.label = [val |-> fetch.target, tt |-> 1],
                          !.events = Append(@, "target_transform")])
       ELSE FetchStep([fetch EXCEPT
                          !.pc = "read",
                          !.label = [val |-> fetch.target, tt |-> 0]])

\* line 166 and LSUNClass lines 40-42: imgbuf = txn.get(self.keys[index])
FetchRead ==
    /\ fetch.pc = "read"
    /\ LET db == dbs[fetch.target + 1]
       IN  IF ~PyIndexOK(db.keys, fetch.local)
           THEN FetchStep([fetch EXCEPT !.pc = "idle", !.result = "IndexError"])
           ELSE LET key == PyGet(db.keys, fetch.local)
                IN  FetchStep([fetch EXCEPT
                       !.pc = "decode",
                       !.img = [NoImg EXCEPT
                                   !.store = db.root, !.key = key,
                                   !.present = key.s = db.root
                                               /\ key.k <= store[db.root]],
                       !.events = Append(@, "read")])

\* LSUNClass lines 44-47: buf.write(imgbuf) raises TypeError when txn.get
\* returned None; Image.open(buf).convert("RGB") decodes the bytes or raises
FetchDecode ==
    /\ fetch.pc = "decode"
    /\ IF ~fetch.img.present
       THEN FetchStep([fetch EXCEPT !.pc = "idle", !.result = "TypeError"])
       ELSE \/ FetchStep([fetch EXCEPT !.pc = "idle", !.result = "DecodeError"])
            \/ FetchStep([fetch EXCEPT !.pc = "transform",
                                       !.img.decoded = TRUE,
                                       !.events = Append(@, "decode")])

\* LSUNClass lines 49-53: self.transform, if there is one; the LSUNClass
\* object was given no target_transform
FetchTransform ==
    /\ fetch.pc = "transform"
    /\ IF transform
       THEN FetchStep([fetch EXCEPT !.pc = "return",
                                    !.img = TransformItem(fetch.img),
                                    !.events = Append(@, "transform")])
       ELSE FetchStep([fetch EXCEPT !.pc = "return"])

\* LSUNClass line 55 and line 167: return img, target
FetchReturn ==
    /\ fetch.pc = "return"
    /\ FetchStep([fetch EXCEPT !.pc = "idle", !.result = "item"])

NextData ==
    \/ DsVerify
    \/ DsOpenClass
    \/ DsBuildIndices
    \/ LenCall
    \/ FetchCall
    \/ FetchResolve
    \/ FetchSelect
    \/ FetchLabel
    \/ FetchRead
    \/ FetchDecode
    \/ FetchTransform
    \/ FetchReturn

----------------------------------------------------------------------------
(* The specifications.                                                     *)

RECURSIVE SeqsUpTo(_, _)
\* the sequences over S of length at most n
SeqsUpTo(S, n) ==
    IF n = 0 THEN { << >> }
    ELSE LET shorter == SeqsUpTo(S, n - 1)
         IN  shorter \cup { Append(s, x) : s \in shorter, x \in S }

\* the elements the lists of SpecVerify are made of
VerifyElements ==
    { StrVal(<<"b", "e", "d", "r", "o", "o", "m", "_", "t", "r", "a", "i", "n">>),
      StrVal(<<"c", "h", "u", "r", "c", "h", "_", "o", "u", "t", "d", "o", "o", "r", "_", "v", "a", "l">>),
      StrVal(<<"l", "i", "v", "i", "n", "g", "_", "r", "o", "o", "m", "_", "t", "e", "s", "t">>),
      StrVal(<<"n", "o", "p", "e", "_", "v", "a", "l">>),
      StrVal(<<"t", "e", "s", "t">>),
      StrVal(<<"b", "e", "d", "r", "o", "o", "m">>),
      StrVal(<<"s", "h", "e", "e", "p", "_", "f", "o", "o">>),
      StrVal(<<"_", "t", "r", "a", "i", "n">>),
      StrVal(<<"b", "e", "d", "r", "o", "o", "m", "_", "_", "v", "a", "l">>),
      StrVal(<<"t", "o", "w", "e", "r", "_">>),
      StrVal(<< >>),
      NonStr }

VerifyArgs ==
    { ListArg(l) : l \in SeqsUpTo(VerifyElements, MaxClasses) }
        \cup { StrArg(dset_opts[i]) : i \in 1..Len(dset_opts) }
        \cup { StrArg(<<"b", "e", "d", "r", "o", "o", "m", "_", "t", "r", "a", "i", "n">>),
               OtherArg }

NoResult == Raised("", << >>)

VerifyIdle == vArg = OtherArg /\ vRes = NoResult /\ vpc = "call"

CacheIdle ==
    /\ store = [r \in Roots |-> 0]
    /\ files = [f \in Paths |-> NoFile]
    /\ proc = [p \in Procs |-> IdleProc]
    /\ opens = [p \in Procs |-> << >>]
    /\ active = { }
    /\ mutations = 0

DataIdle ==
    /\ dpc = "none"
    /\ classes = << >>
    /\ dbs = << >>
    /\ indices = << >>
    /\ length = 0
    /\ transform = FALSE
    /\ target_transform = FALSE
    /\ fetch = FetchIdle
    /\ lenRet = -1

\* _verify_classes(classes)
DoVerify ==
    /\ vpc = "call"
    /\ vRes' = VerifyClasses(vArg)
    /\ vpc' = "done"
    /\ UNCHANGED vArg
    /\ UNCHANGED cacheVars
    /\ UNCHANGED dataVars

InitVerify ==
    /\ vArg \in VerifyArgs
    /\ vRes = NoResult
    /\ vpc = "call"
    /\ CacheIdle
    /\ DataIdle

SpecVerify == InitVerify /\ [][DoVerify]_vars

\* the cache files a run may find: none, or the artifact an earlier run wrote
\* for a root with that cache path when its store held n entries
InitFiles ==
    { fs \in [Paths -> { NoFile } \cup
                       { FileOf(Dump(ScanKeys(r, n))) : r \in Roots, n \in 0..MaxEntries }] :
         \A f \in Paths :
            fs[f].exists =>
               \E r \in Roots, n \in 0..MaxEntries :
                  CachePath(r) = f /\ fs[f].data = Dump(ScanKeys(r, n)) }

InitStores == { [r \in Roots |-> IF r = RootA THEN MaxEntries ELSE 1] }

InitCache(procs, fss) ==
    /\ store \in InitStores
    /\ files \in fss
    /\ proc = [p \in Procs |-> IdleProc]
    /\ opens = [p \in Procs |-> << >>]
    /\ active = procs
    /\ mutations = 0
    /\ VerifyIdle
    /\ DataIdle

InitSeq == InitCache({ 1 }, InitFiles)

\* two processes start together where no cache file exists yet
InitRace == InitCache(Procs, { [f \in Paths |-> NoFile] })

SpecSeq == InitSeq /\ [][NextCache]_vars

SpecRace == InitRace /\ [][NextCache]_vars

\* the arguments the data loader of the model is constructed with
DataArgs ==
    { ListArg(DataClassList(k)) : k \in 0..MaxStores }
        \cup { StrArg(<<"t", "e", "s", "t">>),
               ListArg(<< StrVal(<<"n", "o", "p", "e", "_", "v", "a", "l">>) >>) }

InitData ==
    /\ vArg \in DataArgs
    /\ vRes = NoResult
    /\ vpc = "call"
    /\ store = [r \in Roots |-> 0]
    /\ files = [f \in Paths |-> NoFile]
    /\ proc = [p \in Procs |-> IdleProc]
    /\ opens = [p \in Procs |-> << >>]
    /\ active = { }
    /\ mutations = 0
    /\ dpc = "new"
    /\ classes = << >>
    /\ dbs = << >>
    /\ indices = << >>
    /\ length = 0
    /\ transform \in BOOLEAN
    /\ target_transform \in BOOLEAN
    /\ fetch = FetchIdle
    /\ lenRet = -1

SpecData == InitData /\ [][NextData]_vars

----------------------------------------------------------------------------
(* The claims.                                                             *)

RECURSIVE SumLengths(_, _)
\* the sum of the lengths of the first k handles of hs
SumLengths(hs, k) == IF k = 0 THEN 0 ELSE SumLengths(hs, k - 1) + hs[k].length

StoreLengths == [j \in 1..Len(dbs) |-> dbs[j].length]
Total == SumLengths(dbs, Len(dbs))

\* the pair (store_index, local_index) __getitem__ computes for global index i
Translate(i) == LET r == Resolve(indices, i) IN << r.target, i - r.sub >>

FetchPastSelect == fetch.pc \in { "label", "read", "decode", "transform", "return" }

\* the pairs (s, l) with 0 <= s < k and 0 <= l < n_s
StorePairs ==
    UNION { { << s - 1, l >> : l \in 0..(dbs[s].length - 1) } : s \in 1..Len(dbs) }

\* C1: for the table built over any list of store lengths (zero lengths
\* included), every global index i in [0, total) is translated to a pair
\* (store_index, local_index) with 0 <= store_index < k and
\* 0 <= local_index < n_store_index, local_index being i minus the sum of the
\* lengths of the stores before store_index; the translation is injective
\* (its total indexes have total distinct images) and onto the pairs (s, l)
\* with 0 <= l < n_s; with lengths [3, 5]: 0 -> (0,0),
\* 2 -> (0,2), 3 -> (1,0), 7 -> (1,4); a fetch in progress holds that pair.
C1_IndexBijection ==
    dpc = "ready" =>
        /\ \A i \in 0..(Total - 1) :
              LET r == Resolve(indices, i)
              IN  /\ r.target \in 0..(Len(dbs) - 1)
                  /\ r.sub = SumLengths(dbs, r.target)
                  /\ (i - r.sub) \in 0..(dbs[r.target + 1].length - 1)
        /\ LET image == { Translate(i) : i \in 0..(Total - 1) }
           IN  /\ Cardinality(image) = Total
               /\ image = StorePairs
        /\ StoreLengths = << 3, 5 >> =>
              /\ Translate(0) = << 0, 0 >>
              /\ Translate(2) = << 0, 2 >>
              /\ Translate(3) = << 1, 0 >>
              /\ Translate(7) = << 1, 4 >>
        /\ (FetchPastSelect /\ fetch.index \in 0..(Total - 1)) =>
              /\ fetch.target \in 0..(Len(dbs) - 1)
              /\ fetch.local = fetch.index - SumLengths(dbs, fetch.target)
              /\ fetch.local \in 0..(dbs[fetch.target + 1].length - 1)

C1_Witness ==
    /\ dpc = "ready"
    /\ StoreLengths = << 3, 5 >>
    /\ fetch.pc = "label"
    /\ fetch.index = 7
    /\ fetch.target = 1
    /\ fetch.local = 4

\* C2: a fetch with a global index outside [0, total_length) fails and
\* returns no item, for every non-empty list of stores; index = total_length
\* and index = -1 in particular.
C2_OutOfRangeReturnsNoItem ==
    (/\ dpc = "ready"
     /\ Len(dbs) >= 1
     /\ fetch.pc = "idle"
     /\ fetch.index \notin 0..(Total - 1))
        => fetch.result # "item"

C3_Table ==
    /\ Len(indices) = Len(dbs)
    /\ Len(dbs) >= 1 => indices[1] = dbs[1].length
    /\ \A k \in 2..Len(dbs) : indices[k] - indices[k - 1] = dbs[k].length
    /\ \A k \in 2..Len(dbs) : indices[k - 1] <= indices[k]
    /\ Len(dbs) >= 1 => indices[Len(indices)] = length
    /\ length = Total
    /\ lenRet \in { -1, length }

\* C3: once the data loader is constructed, and after any fetches and length
\* calls, `indices` has one entry per handle, indices[0] = len(dbs[0]),
\* indices[k] - indices[k-1] = len(dbs[k]), the table is non-decreasing, its
\* last entry is the value __len__ returns (the sum of the store lengths), and
\* no step of a fetch or length call changes the table, the handles or the length.
C3_BoundaryTable ==
    /\ [](dpc = "ready" => C3_Table)
    /\ [][dpc = "ready" => UNCHANGED << dbs, indices, length >>]_vars

C3_Witness ==
    /\ dpc = "ready"
    /\ Len(dbs) = 2
    /\ 0 < indices[1]
    /\ indices[1] < indices[2]
    /\ lenRet = length
    /\ fetch.pc = "idle"
    /\ fetch.result = "item"

\* C4: when one process constructs two LSUNClass objects on the same root one
\* after the other, with or without a cache file at the start, both hold the
\* same key list and the second construction does not enumerate the keys of
\* the store with a cursor.
C4_SecondLoadFromCache ==
    \A p \in active : \A i \in 1..(Len(opens[p]) - 1) :
        opens[p][i].root = opens[p][i + 1].root =>
            /\ opens[p][i].status = "ok"
            /\ opens[p][i + 1].status = "ok"
            /\ opens[p][i + 1].keys = opens[p][i].keys
            /\ ~opens[p][i + 1].scanned

C4_Witness ==
    /\ Len(opens[1]) >= 2
    /\ opens[1][1].root = opens[1][2].root
    /\ opens[1][1].scanned
    /\ ~opens[1][2].scanned
    /\ opens[1][2].keys = opens[1][1].keys
    /\ opens[1][1].keys # << >>

\* C5: no handle exists whose entry count differs from the length of its key
\* list (opening with a mismatch fails instead).
C5_CountMatchesKeys ==
    \A p \in active : \A i \in 1..Len(opens[p]) :
        opens[p][i].status = "ok" => opens[p][i].length = Len(opens[p][i].keys)

\* a category name of an explicit list: <name>_<split>
ValidCategoryName(e) ==
    /\ e.isStr
    /\ \E c \in 1..Len(categories), o \in 1..Len(dset_opts) :
          e.s = categories[c] \o << "_" >> \o dset_opts[o]

\* the position of the last underscore of s, 0 when it has none
LastUnderscore(s) ==
    LET at == { i \in 1..Len(s) : s[i] = "_" }
    IN  IF at = { } THEN 0 ELSE CHOOSE i \in at : \A j \in at : j <= i

\* the part of s the error names: what precedes the last underscore when that
\* is no category, and what follows it otherwise
OffendingPart(s) ==
    LET u == LastUnderscore(s)
        before == SubSeq(s, 1, u - 1)
        after == SubSeq(s, u + 1, Len(s))
    IN  IF u = 0 \/ ~InSeq(before, categories) THEN before ELSE after

ExampleList ==
    << StrVal(<<"b", "e", "d", "r", "o", "o", "m", "_", "t", "r", "a", "i", "n">>),
       StrVal(<<"n", "o", "p", "e", "_", "v", "a", "l">>) >>

\* C6 (as amended): for an explicit list, _verify_classes succeeds exactly
\* when every element is a string <name>_<split> with name in the vocabulary
\* and split in {train, val, test}, and then returns the list with the same
\* elements in the same order; otherwise it raises for the first element that
\* is not, naming the part before its last underscore when that is no
\* category and the part after it otherwise: ["bedroom_train", "nope_val"]
\* fails naming "nope".
C6_ExplicitList ==
    (vpc = "done" /\ vArg.kind = "list") =>
        LET items == vArg.items
            bad == { i \in 1..Len(items) : ~ValidCategoryName(items[i]) }
        IN  /\ vRes.ok <=> bad = { }
            /\ vRes.ok => vRes.classes = items
            /\ ~vRes.ok =>
                  LET j == CHOOSE i \in bad : \A k \in bad : i <= k
                  IN  IF items[j].isStr
                      THEN /\ vRes.what \in { "LSUN class", "postfix" }
                           /\ vRes.named = OffendingPart(items[j].s)
                      ELSE vRes.what = "type"
            /\ items = ExampleList =>
                  /\ ~vRes.ok
                  /\ vRes.named = << "n", "o", "p", "e" >>

C6_Witness ==
    /\ vpc = "done"
    /\ vArg = ListArg(ExampleList)
    /\ ~vRes.ok
    /\ vRes.what = "LSUN class"
    /\ vRes.named = << "n", "o", "p", "e" >>

\* C6 (as claimed): for an explicit list, _verify_classes succeeds exactly
\* when every element is <name>_<split> or the bare name "test".
C6_BareTestAccepted ==
    (vpc = "done" /\ vArg.kind = "list") =>
        (vRes.ok <=>
            \A i \in 1..Len(vArg.items) :
                \/ ValidCategoryName(vArg.items[i])
                \/ vArg.items[i] = StrVal(<< "t", "e", "s", "t" >>))

\* C7: the handles of a data loader are opened each on the store of its own
\* category, so the handles of two different categories are opened on
\* different stores.
C7_OwnStorePerCategory ==
    dpc = "ready" =>
        \A i, j \in 1..Len(dbs) :
            classes[i] # classes[j] => dbs[i].root # dbs[j].root

\* the events of a fetch that returns an item, in the order of the code
CodeOrder ==
    (IF target_transform THEN << "target_transform" >> ELSE << >>)
        \o << "read", "decode" >>
        \o (IF transform THEN << "transform" >> ELSE << >>)

C9_TornLoadFails ==
    \A p \in active : \A i \in 1..Len(opens[p]) :
        opens[p][i].torn =>
            /\ opens[p][i].status = "load_error"
            /\ opens[p][i].keys = << >>
            /\ ~opens[p][i].scanned

C9_Witness ==
    /\ mutations = 0
    /\ store[RootA] > 0
    /\ Len(opens[1]) = 1
    /\ opens[1][1].root = RootA
    /\ opens[1][1].torn
    /\ opens[1][1].status = "load_error"
    /\ proc[2].pc = "write"
    /\ proc[2].root = RootA
    /\ proc[2].off > 0

\* the letters of a root path
LettersOnly(root) == SelectSeq(root, LAMBDA c : c \in ascii_letters)

\* C10: the cache path of a root is "_cache_" followed by its ASCII letters,
\* so when a process opens root A with a cache miss (scan and write) and then
\* a different root B with the same letters, the construction for B raises
\* nothing, does not scan B and holds the key list of A.
C10_CollidingRootsShareKeys ==
    /\ \A r \in Roots :
          CachePath(r) = << "_", "c", "a", "c", "h", "e", "_" >> \o LettersOnly(r)
    /\ \A p \in active : \A i \in 1..(Len(opens[p]) - 1) :
          LET a == opens[p][i]
              b == opens[p][i + 1]
          IN  (/\ a.root # b.root
               /\ LettersOnly(a.root) = LettersOnly(b.root)
               /\ a.status = "ok"
               /\ a.scanned)
                 => /\ b.status = "ok"
                    /\ ~b.scanned
                    /\ b.keys = a.keys

\* B's handle reports B's entry count and holds A's keys
C10_Witness ==
    /\ mutations = 0
    /\ Len(opens[1]) >= 2
    /\ opens[1][1].root = RootA
    /\ opens[1][1].scanned
    /\ opens[1][2].root = RootB
    /\ opens[1][2].status = "ok"
    /\ opens[1][2].keys = ScanKeys(RootA, store[RootA])
    /\ opens[1][2].length = store[RootB]
    /\ opens[1][2].length # Len(opens[1][2].keys)

====
